---- MODULE Spec2Model ----
(***************************************************************************)
(* Model of guest_display.py: load_data, calculate_guest_impact and the    *)
(* control flow of show_guest_display.                                     *)
(*                                                                         *)
(* Numbers are exact rationals [k, n, d] in lowest terms; k is "num",      *)
(* "nan" (pandas mean of nothing, 0/0) or "inf" (numpy x/0).  Python's     *)
(* float rounding is not modelled.  Dates are <<year, month, day>>, the    *)
(* missing date NaT is <<>>.                                               *)
(***************************************************************************)
EXTENDS Integers, Sequences, FiniteSets, TLC

VARIABLES files, pc, data, selected_hotel, calc, metrics, errors, log

vars == <<files, pc, data, selected_hotel, calc, metrics, errors, log>>

----------------------------------------------------------------------------
(* Bounds of the input space *)

MaxWasteRows == 3
MaxMeterRows == 2
MaxOccRows == 2

----------------------------------------------------------------------------
(* Numbers *)

Abs(x) == IF x < 0 THEN -x ELSE x

RECURSIVE GCD(_, _)
GCD(a, b) == IF b = 0 THEN a ELSE GCD(b, a % b)

Rat(n, d) ==
  LET g == GCD(Abs(n), d)
  IN  [k |-> "num", n |-> n \div g, d |-> d \div g]

Zero == Rat(0, 1)
One == Rat(1, 1)
NaN == [k |-> "nan", n |-> 0, d |-> 1]
Inf(sign) == [k |-> "inf", n |-> sign, d |-> 1]

\* a < b and a > b as Python floats compare: anything against NaN is false
Lt(a, b) ==
  CASE a.k = "nan" \/ b.k = "nan" -> FALSE
    [] a.k = "inf" /\ b.k = "inf" -> a.n < b.n
    [] a.k = "inf" -> a.n < 0
    [] b.k = "inf" -> b.n > 0
    [] OTHER -> a.n * b.d < b.n * a.d

Gt(a, b) == Lt(b, a)

Neg(a) == [a EXCEPT !.n = -a.n]

Add(a, b) ==
  CASE a.k = "nan" \/ b.k = "nan" -> NaN
    [] a.k = "inf" /\ b.k = "inf" -> IF a.n = b.n THEN a ELSE NaN
    [] a.k = "inf" -> a
    [] b.k = "inf" -> b
    [] OTHER -> Rat(a.n * b.d + b.n * a.d, a.d * b.d)

Sub(a, b) == Add(a, Neg(b))

Sign(x) == IF x > 0 THEN 1 ELSE IF x < 0 THEN -1 ELSE 0

Mul(a, b) ==
  CASE a.k = "nan" \/ b.k = "nan" -> NaN
    [] a.k = "inf" \/ b.k = "inf" ->
         IF a.n = 0 \/ b.n = 0 THEN NaN ELSE Inf(Sign(a.n) * Sign(b.n))
    [] OTHER -> Rat(a.n * b.n, a.d * b.d)

\* numpy true division of two finite numbers: x/0 is inf, 0/0 is nan, no exception
Divide(a, b) ==
  CASE a.k # "num" \/ b.k # "num" -> NaN
    [] b.n = 0 -> IF a.n = 0 THEN NaN ELSE Inf(Sign(a.n))
    [] OTHER -> Rat(a.n * b.d * Sign(b.n), a.d * Abs(b.n))

\* Python's builtin max(a, b) / min(a, b): the first argument is kept unless
\* the second compares strictly greater / smaller
PyMax(a, b) == IF Gt(b, a) THEN b ELSE a
PyMin(a, b) == IF Lt(b, a) THEN b ELSE a

RECURSIVE SumSeq(_)
SumSeq(s) == IF s = <<>> THEN Zero ELSE Add(Head(s), SumSeq(Tail(s)))

\* pandas Series.sum(): 0 for an empty selection
SeriesSum(s) == SumSeq(s)

\* pandas Series.mean(): NaN for an empty selection
SeriesMean(s) == IF s = <<>> THEN NaN ELSE Divide(SumSeq(s), Rat(Len(s), 1))

----------------------------------------------------------------------------
(* Dates *)

NaT == <<>>

IsLeap(y) == (y % 4 = 0 /\ y % 100 # 0) \/ y % 400 = 0

DaysInMonth(y, m) ==
  IF m = 2 THEN (IF IsLeap(y) THEN 29 ELSE 28)
  ELSE IF m \in {4, 6, 9, 11} THEN 30 ELSE 31

MinInt(a, b) == IF a < b THEN a ELSE b

\* ts - pd.DateOffset(months = k): the month moves back k months and the day
\* is cut to the last day of the target month; NaT stays NaT
SubMonths(ts, k) ==
  IF ts = NaT THEN NaT
  ELSE LET idx == ts[1] * 12 + (ts[2] - 1) - k
           y == idx \div 12
           m == (idx % 12) + 1
       IN  <<y, m, MinInt(ts[3], DaysInMonth(y, m))>>

\* ts - pd.DateOffset(years = 1)
PrevYear(ts) == SubMonths(ts, 12)

\* ts - pd.DateOffset(months = 1)
PrevMonth(ts) == SubMonths(ts, 1)

DateLt(a, b) ==
  \/ a[1] < b[1]
  \/ a[1] = b[1] /\ a[2] < b[2]
  \/ a[1] = b[1] /\ a[2] = b[2] /\ a[3] < b[3]

\* Series.max() of a datetime column: NaT cells are skipped, NaT if nothing is left
MonthMax(rows) ==
  LET ds == {rows[i].Month : i \in DOMAIN rows} \ {NaT}
  IN  IF ds = {} THEN NaT
      ELSE CHOOSE m \in ds : \A o \in ds : ~DateLt(m, o)

----------------------------------------------------------------------------
(* Text cells of the CSV files *)

\* a Month cell "a<sep>b<sep>c", or the empty cell
Cell(sep, a, b, c) == [sep |-> sep, f |-> <<a, b, c>>]
EmptyCell == [sep |-> "", f |-> <<>>]
DMY(date) == Cell("/", date[3], date[2], date[1])

ParseError == <<-1>>

\* pd.to_datetime(cell, format='%d/%m/%Y'): an empty cell (NaN) becomes NaT;
\* text is read as day/month/year with a four-digit year and must be a
\* calendar date; anything else raises
ToDatetime(cell) ==
  IF cell = EmptyCell THEN NaT
  ELSE LET d == cell.f[1]
           m == cell.f[2]
           y == cell.f[3]
       IN  IF /\ cell.sep = "/"
              /\ y >= 1000 /\ y <= 9999
              /\ m >= 1 /\ m <= 12
              /\ d >= 1 /\ d <= DaysInMonth(y, m)
           THEN <<y, m, d>>
           ELSE ParseError

\* The text of an "Occupancy Rate" cell: a body followed by pct '%' characters.
\* body "num" is a decimal number v, "junk" is other text, "none" is no text
\* at all; a cell with neither body nor '%' is the empty cell
Text(body, v, pct) == [body |-> body, v |-> v, pct |-> pct]
EmptyText == Text("none", 0, 0)

\* read_csv: a column whose cells are all numbers or empty is read as a
\* numeric column, a column with any other text (or with no rows) as strings
IsStringColumn(cells) ==
  \/ cells = <<>>
  \/ \E i \in DOMAIN cells : cells[i] # EmptyText /\ ~(cells[i].body = "num" /\ cells[i].pct = 0)

\* str.rstrip('%').astype(float) / 100 of one cell of a string column: the
\* empty cell stays NaN, a number becomes v/100, other text raises
ConvertRate(t) ==
  IF t = EmptyText THEN [ok |-> TRUE, val |-> NaN]
  ELSE IF t.body = "num" THEN [ok |-> TRUE, val |-> Rat(t.v, 100)]
  ELSE [ok |-> FALSE, val |-> NaN]

----------------------------------------------------------------------------
(* load_data *)

FileNames == {"waste", "electricity", "water", "occupancy"}

None == [some |-> FALSE]

\* df['Month'] = pd.to_datetime(df['Month'], format='%d/%m/%Y')
ConvertDates(rows) == [i \in DOMAIN rows |-> [rows[i] EXCEPT !.Month = ToDatetime(rows[i].Month)]]

DatesParse(rows) == \A i \in DOMAIN rows : ToDatetime(rows[i].Month) # ParseError

RateCells(rows) == [i \in DOMAIN rows |-> rows[i].Rate]

\* occupancy_df['Occupancy Rate'].str.rstrip('%').astype(float) / 100
RatesConvert(rows) ==
  /\ IsStringColumn(RateCells(rows))
  /\ \A i \in DOMAIN rows : ConvertRate(rows[i].Rate).ok

ConvertRates(rows) == [i \in DOMAIN rows |-> [rows[i] EXCEPT !.Rate = ConvertRate(rows[i].Rate).val]]

\* TRUE iff the try block of load_data runs to its return statement
LoadSucceeds(fs) ==
  /\ \A f \in FileNames : fs[f].exists
  /\ \A f \in FileNames : DatesParse(fs[f].rows)
  /\ RatesConvert(fs.occupancy.rows)

load_data(fs) ==
  IF LoadSucceeds(fs)
  THEN [some |-> TRUE,
        waste |-> ConvertDates(fs.waste.rows),
        electricity |-> [cols |-> fs.electricity.cols, rows |-> ConvertDates(fs.electricity.rows)],
        water |-> [cols |-> fs.water.cols, rows |-> ConvertDates(fs.water.rows)],
        occupancy |-> ConvertRates(ConvertDates(fs.occupancy.rows))]
  ELSE None

----------------------------------------------------------------------------
(* calculate_guest_impact *)

GREEN_CHAMPIONS == {"Camden", "Canopy", "Westin", "St Albans", "CIV", "CIE", "EH"}

NoHotel == ""

CO2Factor == Rat(233, 1000)
recycling_target == Rat(1, 2)

IntCol(rows, h) == [i \in DOMAIN rows |-> Rat(rows[i].use[h], 1)]

\* hotel_water[hotel_water['Month'] == month][selected_hotel].sum()
MeterTotal(meter, h, month) ==
  SeriesSum(IntCol(SelectSeq(meter.rows, LAMBDA r : r.Month = month), h))

\* hotel_occupancy[hotel_occupancy['Month'] == month]['Sleepers'].sum()
SleepersTotal(occupancy, h, month) ==
  LET sel == SelectSeq(occupancy, LAMBDA r : r.Hotel = h /\ r.Month = month)
  IN  SeriesSum([i \in DOMAIN sel |-> Rat(sel[i].Sleepers, 1)])

\* the division without its guard
PerGuestUnguarded(total, occ) == Divide(total, occ)

\* total / occ if occ > 0 else 0
PerGuest(total, occ) == IF Gt(occ, Zero) THEN Divide(total, occ) ELSE Zero

\* max(0, x)
ClampSaving(x) == PyMax(Zero, x)

\* the rows of hotel_waste for one month
WasteRowsOf(waste, h, month) == SelectSeq(waste, LAMBDA r : r.Hotel = h /\ r.Month = month)

\* the mean over all months of the hotel
RecyclingMeanAllMonths(waste, h, month) ==
  LET sel == SelectSeq(waste, LAMBDA r : r.Hotel = h)
  IN  SeriesMean([i \in DOMAIN sel |-> sel[i].RecyclingRates])

RecyclingMean(waste, h, month) ==
  LET sel == WasteRowsOf(waste, h, month)
  IN  SeriesMean([i \in DOMAIN sel |-> sel[i].RecyclingRates])

FoodWasteMean(waste, h, month) ==
  LET sel == WasteRowsOf(waste, h, month)
  IN  SeriesMean([i \in DOMAIN sel |-> Rat(sel[i].FoodWaste, 1)])

\* the offsets of the two comparisons interchanged
WaterComparisonPrevMonth(latest) == PrevMonth(latest)
FoodComparisonPrevYear(latest) == PrevYear(latest)

\* the comparison periods
WaterComparisonMonth(latest) == PrevYear(latest)
EnergyComparisonMonth(latest) == PrevYear(latest)
OccupancyComparisonMonth(latest) == PrevYear(latest)
FoodComparisonMonth(latest) == PrevMonth(latest)

latest_month(d) == MonthMax(d.waste)

\* TRUE iff the try block of calculate_guest_impact raises: a hotel without a
\* column in the water or electricity frame (KeyError), or NaT.strftime
CalcRaises(d, h) ==
  \/ h \notin d.water.cols
  \/ h \notin d.electricity.cols
  \/ latest_month(d) = NaT

\* the local variables of calculate_guest_impact
CalcLocals(d, h) ==
  LET latest == latest_month(d)
      current_month_water == MeterTotal(d.water, h, latest)
      prev_year_water == MeterTotal(d.water, h, WaterComparisonMonth(latest))
      current_month_occ == SleepersTotal(d.occupancy, h, latest)
      prev_year_occ == SleepersTotal(d.occupancy, h, OccupancyComparisonMonth(latest))
      current_energy == MeterTotal(d.electricity, h, latest)
      prev_year_energy == MeterTotal(d.electricity, h, EnergyComparisonMonth(latest))
  IN  [some |-> TRUE,
       latest_month |-> latest,
       current_month_occ |-> current_month_occ,
       prev_year_occ |-> prev_year_occ,
       current_water_per_guest |-> PerGuest(current_month_water, current_month_occ),
       prev_water_per_guest |-> PerGuest(prev_year_water, prev_year_occ),
       current_energy_per_guest |-> PerGuest(current_energy, current_month_occ),
       prev_energy_per_guest |-> PerGuest(prev_year_energy, prev_year_occ),
       current_food_waste |-> FoodWasteMean(d.waste, h, latest),
       prev_food_waste |-> FoodWasteMean(d.waste, h, FoodComparisonMonth(latest))]

WaterSaved(l) == ClampSaving(Sub(l.prev_water_per_guest, l.current_water_per_guest))

\* the saving left in kWh
CO2SavedUnscaled(l) ==
  ClampSaving(Sub(l.prev_energy_per_guest, l.current_energy_per_guest))

CO2Saved(l) ==
  ClampSaving(Mul(Sub(l.prev_energy_per_guest, l.current_energy_per_guest), CO2Factor))

FoodSaved(l) == ClampSaving(Sub(l.prev_food_waste, l.current_food_waste))

calculate_guest_impact(d, h) ==
  IF CalcRaises(d, h) THEN None
  ELSE LET l == CalcLocals(d, h)
       IN  [some |-> TRUE,
            water_saved |-> WaterSaved(l),
            co2_saved |-> CO2Saved(l),
            recycling_rate |-> RecyclingMean(d.waste, h, l.latest_month),
            recycling_target |-> recycling_target,
            food_saved |-> FoodSaved(l),
            month |-> <<l.latest_month[1], l.latest_month[2]>>]

----------------------------------------------------------------------------
(* show_guest_display *)

\* sorted(data['waste']['Hotel'].unique())
Hotels(d) == {d.waste[i].Hotel : i \in DOMAIN d.waste}

\* min(recycling_rate / recycling_target, 1.0)
RecyclingProgress(m) == PyMin(Divide(m.recycling_rate, m.recycling_target), One)

\* st.progress accepts a float v with 0.0 <= v <= 1.0 and raises otherwise
ProgressAccepts(v) == ~Lt(v, Zero) /\ ~Gt(v, One) /\ v.k = "num"

----------------------------------------------------------------------------
(* The input space: the contents of the four CSV files *)

DateSeq == << <<2023, 3, 31>>, <<2024, 2, 29>>, <<2024, 3, 31>> >>
HotelSeq == <<"Camden", "Annex">>
\* (Recycling Rates, Food Waste) of a waste row
ReadingSeq == << <<Rat(2, 5), 5>>, <<Rat(4, 5), 2>>, <<Rat(4, 5), 5>> >>
WaterSeq == <<1000, 1200>>
EnergySeq == <<1000, 2000>>
SleeperSeq == <<0, 100>>

HotelSet == {HotelSeq[i] : i \in DOMAIN HotelSeq}

\* non-decreasing index sequences of length <= max over 0 .. n-1: each
\* multiset of rows is taken once, since no operation depends on row order
SortedIdx(n, max) ==
  {s \in UNION {[1..k -> 0..(n - 1)] : k \in 0..max} :
     \A i \in 1..(Len(s) - 1) : s[i] <= s[i + 1]}

Pick(seq, i) == seq[(i % Len(seq)) + 1]

WasteRowCount == Len(DateSeq) * Len(HotelSeq) * Len(ReadingSeq)
WasteRow(i) ==
  [Month |-> DMY(Pick(DateSeq, i)),
   Hotel |-> Pick(HotelSeq, i \div Len(DateSeq)),
   RecyclingRates |-> Pick(ReadingSeq, i \div (Len(DateSeq) * Len(HotelSeq)))[1],
   FoodWaste |-> Pick(ReadingSeq, i \div (Len(DateSeq) * Len(HotelSeq)))[2]]

\* a meter row has one usage column per hotel; the second hotel's usage is fixed
MeterRowCount == Len(DateSeq) * Len(WaterSeq)
MeterRow(vals, other, i) ==
  [Month |-> DMY(Pick(DateSeq, i)),
   use |-> [h \in HotelSet |-> IF h = HotelSeq[1] THEN Pick(vals, i \div Len(DateSeq)) ELSE other]]

OccRowCount == Len(DateSeq) * (Len(SleeperSeq) + 1)
OccRow(i) ==
  LET j == i \div Len(DateSeq)
  IN  [Month |-> DMY(Pick(DateSeq, i)),
       Hotel |-> IF j < Len(SleeperSeq) THEN HotelSeq[1] ELSE HotelSeq[2],
       Sleepers |-> IF j < Len(SleeperSeq) THEN SleeperSeq[j + 1] ELSE 50,
       Rate |-> Text("num", 85, 1)]

Missing == [exists |-> FALSE, cols |-> {}, rows |-> <<>>]
File(cols, rows) == [exists |-> TRUE, cols |-> cols, rows |-> rows]
WasteCols == {"Month", "Hotel", "Recycling Rates", "Food Waste"}
OccCols == {"Month", "Hotel", "Sleepers", "Occupancy Rate"}

WasteFiles ==
  {File(WasteCols, [j \in DOMAIN s |-> WasteRow(s[j])]) : s \in SortedIdx(WasteRowCount, MaxWasteRows)}
WaterFiles ==
  {File(HotelSet, [j \in DOMAIN s |-> MeterRow(WaterSeq, 700, s[j])]) : s \in SortedIdx(MeterRowCount, MaxMeterRows)}
ElectricityFiles ==
  {File(HotelSet, [j \in DOMAIN s |-> MeterRow(EnergySeq, 900, s[j])]) : s \in SortedIdx(MeterRowCount, MaxMeterRows)}
OccupancyFiles ==
  {File(OccCols, [j \in DOMAIN s |-> OccRow(s[j])]) : s \in SortedIdx(OccRowCount, MaxOccRows)}

\* the reference files: Camden with rows for the latest month (31/03/2024),
\* the month before and the same month of the year before
BaseWaste ==
  File(WasteCols,
       << [Month |-> DMY(DateSeq[3]), Hotel |-> "Camden", RecyclingRates |-> Rat(2, 5), FoodWaste |-> 3],
          [Month |-> DMY(DateSeq[2]), Hotel |-> "Camden", RecyclingRates |-> Rat(3, 5), FoodWaste |-> 5] >>)
BaseWater ==
  File(HotelSet,
       << [Month |-> DMY(DateSeq[3]), use |-> [h \in HotelSet |-> IF h = "Camden" THEN 1000 ELSE 700]],
          [Month |-> DMY(DateSeq[1]), use |-> [h \in HotelSet |-> IF h = "Camden" THEN 1200 ELSE 700]] >>)
BaseElectricity ==
  File(HotelSet,
       << [Month |-> DMY(DateSeq[3]), use |-> [h \in HotelSet |-> IF h = "Camden" THEN 1000 ELSE 900]],
          [Month |-> DMY(DateSeq[1]), use |-> [h \in HotelSet |-> IF h = "Camden" THEN 2000 ELSE 900]] >>)
BaseOccupancy ==
  File(OccCols,
       << [Month |-> DMY(DateSeq[3]), Hotel |-> "Camden", Sleepers |-> 100, Rate |-> Text("num", 85, 1)],
          [Month |-> DMY(DateSeq[1]), Hotel |-> "Camden", Sleepers |-> 100, Rate |-> Text("num", 90, 1)] >>)

BaseFiles ==
  [waste |-> BaseWaste, electricity |-> BaseElectricity, water |-> BaseWater, occupancy |-> BaseOccupancy]

\* Month cells other than a well-formed day/month/year date: ISO text,
\* month/day/year, a two-digit year, and the empty cell
OddCells == {Cell("-", 2024, 3, 31), Cell("/", 3, 31, 2024), Cell("/", 31, 3, 24), EmptyCell}

OddRates == {Text("num", 85, 0), Text("junk", 0, 1), Text("none", 0, 1), Text("num", 85, 2), EmptyText}

WithCell(fs, f, i, cell) == [fs EXCEPT ![f].rows[i].Month = cell]
WithRate(fs, i, t) == [fs EXCEPT !.occupancy.rows[i].Rate = t]

\* waste varies
WasteInputs == {[BaseFiles EXCEPT !.waste = w] : w \in WasteFiles}
\* water and occupancy vary
WaterInputs == {[BaseFiles EXCEPT !.water = w, !.occupancy = o] : w \in WaterFiles, o \in OccupancyFiles}
\* electricity and occupancy vary
ElectricityInputs ==
  {[BaseFiles EXCEPT !.electricity = e, !.occupancy = o] : e \in ElectricityFiles, o \in OccupancyFiles}
\* files are missing, cells are malformed or empty, hotel columns are absent
MissingInputs ==
  {[f \in FileNames |-> IF f \in m THEN Missing ELSE BaseFiles[f]] : m \in SUBSET FileNames}
CellInputs ==
  {WithCell(BaseFiles, f, i, c) : f \in FileNames, i \in 1..2, c \in OddCells}
RateInputs ==
  {WithRate(WithRate(BaseFiles, 1, a), 2, b) : a \in OddRates \cup {Text("num", 85, 1)}, b \in OddRates}
ColumnInputs ==
  {[BaseFiles EXCEPT !.water.cols = wc, !.electricity.cols = ec,
                     !.waste.rows[2].Hotel = h] :
      wc \in SUBSET HotelSet, ec \in SUBSET HotelSet, h \in HotelSet}

Inputs ==
  WasteInputs \cup WaterInputs \cup ElectricityInputs \cup MissingInputs
    \cup CellInputs \cup RateInputs \cup ColumnInputs

----------------------------------------------------------------------------
(* The run of show_guest_display *)

Init ==
  /\ files \in Inputs
  /\ pc = "load"
  /\ data = None
  /\ selected_hotel = NoHotel
  /\ calc = None
  /\ metrics = None
  /\ errors = <<>>
  /\ log = <<>>

\* data = load_data(); if not data: return
LoadData ==
  /\ pc = "load"
  /\ data' = load_data(files)
  /\ log' = Append(log, "load_data")
  /\ IF data'.some
     THEN /\ pc' = "select"
          /\ errors' = errors
     ELSE /\ pc' = "done"
          /\ errors' = Append(errors, "Error loading data")
  /\ UNCHANGED <<files, selected_hotel, calc, metrics>>

\* selected_hotel = st.selectbox('Select Hotel', hotels); None if there are no hotels
SelectHotel ==
  /\ pc = "select"
  /\ IF Hotels(data) = {}
     THEN selected_hotel' = NoHotel
     ELSE selected_hotel' \in Hotels(data)
  /\ log' = Append(log, "selectbox")
  /\ pc' = "calculate"
  /\ UNCHANGED <<files, data, calc, metrics, errors>>

\* the calculation without the return after a failure
CalculateGuestImpactNoReturn ==
  /\ pc = "calculate"
  /\ metrics' = calculate_guest_impact(data, selected_hotel)
  /\ calc' = IF CalcRaises(data, selected_hotel) THEN None ELSE CalcLocals(data, selected_hotel)
  /\ log' = Append(log, "calculate_guest_impact")
  /\ pc' = "header"
  /\ errors' = IF metrics'.some THEN errors ELSE Append(errors, "Error calculating metrics")
  /\ UNCHANGED <<files, data, selected_hotel>>

\* metrics = calculate_guest_impact(data, selected_hotel); if not metrics: return
CalculateGuestImpact ==
  /\ pc = "calculate"
  /\ metrics' = calculate_guest_impact(data, selected_hotel)
  /\ calc' = IF CalcRaises(data, selected_hotel) THEN None ELSE CalcLocals(data, selected_hotel)
  /\ log' = Append(log, "calculate_guest_impact")
  /\ IF metrics'.some
     THEN /\ pc' = "header"
          /\ errors' = errors
     ELSE /\ pc' = "done"
          /\ errors' = Append(errors, "Error calculating metrics")
  /\ UNCHANGED <<files, data, selected_hotel>>

RenderHeader ==
  /\ pc = "header"
  /\ log' = Append(log, "header")
  /\ pc' = "cards"
  /\ UNCHANGED <<files, data, selected_hotel, calc, metrics, errors>>

RenderMetricCards ==
  /\ pc = "cards"
  /\ log' = Append(log, "metric_cards")
  /\ pc' = "energy"
  /\ UNCHANGED <<files, data, selected_hotel, calc, metrics, errors>>

RenderEnergyProgress ==
  /\ pc = "energy"
  /\ log' = Append(log, "energy_progress")
  /\ pc' = "recycling"
  /\ UNCHANGED <<files, data, selected_hotel, calc, metrics, errors>>

\* st.progress(min(recycling_progress, 1.0)): an exception raised by the
\* widget is caught nowhere and ends the run
RenderRecyclingProgress ==
  /\ pc = "recycling"
  /\ IF ProgressAccepts(RecyclingProgress(metrics))
     THEN /\ log' = Append(log, "recycling_progress")
          /\ pc' = "champion"
     ELSE /\ log' = log
          /\ pc' = "crashed"
  /\ UNCHANGED <<files, data, selected_hotel, calc, metrics, errors>>

\* if selected_hotel in GREEN_CHAMPIONS: the Green Champion panel
RenderChampion ==
  /\ pc = "champion"
  /\ log' = IF selected_hotel \in GREEN_CHAMPIONS THEN Append(log, "champion") ELSE log
  /\ pc' = "done"
  /\ UNCHANGED <<files, data, selected_hotel, calc, metrics, errors>>

Next ==
  \/ LoadData
  \/ SelectHotel
  \/ CalculateGuestImpact
  \/ RenderHeader
  \/ RenderMetricCards
  \/ RenderEnergyProgress
  \/ RenderRecyclingProgress
  \/ RenderChampion

Spec == Init /\ [][Next]_vars

----------------------------------------------------------------------------
(* The quantities the claims speak of, stated from the tables themselves *)

Returned == metrics.some

DateKey(date) == date[1] * 10000 + date[2] * 100 + date[3]

\* the maximum Month over the whole waste dataset
LatestIn(d) ==
  CHOOSE m \in {d.waste[i].Month : i \in DOMAIN d.waste} \ {NaT} :
    \A i \in DOMAIN d.waste : d.waste[i].Month # NaT => DateKey(d.waste[i].Month) <= DateKey(m)

\* the same month of the year before, and the month before
YearBefore(l) == <<l[1] - 1, l[2], MinInt(l[3], DaysInMonth(l[1] - 1, l[2]))>>
MonthBefore(l) ==
  IF l[2] = 1 THEN <<l[1] - 1, 12, l[3]>>
  ELSE <<l[1], l[2] - 1, MinInt(l[3], DaysInMonth(l[1], l[2] - 1))>>

RECURSIVE SumFn(_)
SumFn(f) ==
  IF DOMAIN f = {} THEN Zero
  ELSE LET i == CHOOSE j \in DOMAIN f : TRUE
       IN  Add(f[i], SumFn([j \in DOMAIN f \ {i} |-> f[j]]))

MeterIdx(meter, m) == {i \in DOMAIN meter.rows : meter.rows[i].Month = m}
OccIdx(d, h, m) == {i \in DOMAIN d.occupancy : d.occupancy[i].Hotel = h /\ d.occupancy[i].Month = m}
WasteIdx(d, h, m) == {i \in DOMAIN d.waste : d.waste[i].Hotel = h /\ d.waste[i].Month = m}

UsageOf(meter, h, m) == SumFn([i \in MeterIdx(meter, m) |-> Rat(meter.rows[i].use[h], 1)])
GuestsOf(d, h, m) == SumFn([i \in OccIdx(d, h, m) |-> Rat(d.occupancy[i].Sleepers, 1)])

\* usage per guest of a period, 0 when the period has no guests
RatioOf(usage, guests) ==
  IF guests.n <= 0 THEN Zero ELSE Rat(usage.n * guests.d, usage.d * guests.n)

Max0(x) == IF x.k = "num" /\ x.n > 0 THEN x ELSE Zero

NonNegative(x) == x.k = "num" /\ x.n >= 0

WaterDrop(d, h) ==
  LET l == LatestIn(d)
  IN  Sub(RatioOf(UsageOf(d.water, h, YearBefore(l)), GuestsOf(d, h, YearBefore(l))),
          RatioOf(UsageOf(d.water, h, l), GuestsOf(d, h, l)))

EnergyDrop(d, h) ==
  LET l == LatestIn(d)
  IN  Sub(RatioOf(UsageOf(d.electricity, h, YearBefore(l)), GuestsOf(d, h, YearBefore(l))),
          RatioOf(UsageOf(d.electricity, h, l), GuestsOf(d, h, l)))

RecyclingOf(d, h, m) ==
  Divide(SumFn([i \in WasteIdx(d, h, m) |-> d.waste[i].RecyclingRates]),
         Rat(Cardinality(WasteIdx(d, h, m)), 1))

FoodOf(d, h, m) ==
  Divide(SumFn([i \in WasteIdx(d, h, m) |-> Rat(d.waste[i].FoodWaste, 1)]),
         Rat(Cardinality(WasteIdx(d, h, m)), 1))

----------------------------------------------------------------------------
(* Claims *)

\* C1: whenever calculate_guest_impact returns a result, water_saved,
\* co2_saved, recycling_rate, recycling_target and food_saved are all >= 0.
C1_AllMetricsNonNegative ==
  Returned =>
    /\ NonNegative(metrics.water_saved)
    /\ NonNegative(metrics.co2_saved)
    /\ NonNegative(metrics.recycling_rate)
    /\ NonNegative(metrics.recycling_target)
    /\ NonNegative(metrics.food_saved)

\* C2: for water and for energy, in the latest month and in the comparison
\* month, a period in which the hotel's Sleepers sum to 0 (no occupancy row
\* included) has per-guest value 0, and the water and CO2 savings returned
\* are finite numbers.
C2_ZeroGuests ==
  Returned =>
    LET l == LatestIn(data)
    IN  /\ GuestsOf(data, selected_hotel, l) = Zero =>
             calc.current_water_per_guest = Zero /\ calc.current_energy_per_guest = Zero
        /\ GuestsOf(data, selected_hotel, YearBefore(l)) = Zero =>
             calc.prev_water_per_guest = Zero /\ calc.prev_energy_per_guest = Zero
        /\ metrics.water_saved.k = "num"
        /\ metrics.co2_saved.k = "num"

\* C2 witness: a result for a hotel with water and electricity usage in the
\* latest month and no guests in it.
C2_Witness ==
  /\ Returned
  /\ GuestsOf(data, selected_hotel, LatestIn(data)) = Zero
  /\ Gt(UsageOf(data.water, selected_hotel, LatestIn(data)), Zero)
  /\ Gt(UsageOf(data.electricity, selected_hotel, LatestIn(data)), Zero)
  /\ calc.current_water_per_guest = Zero

\* C3: water_saved = max(0, P - C), C the hotel's water usage per guest in
\* the latest month, P the same ratio twelve months before, each ratio 0
\* when its Sleepers total is 0.
C3_WaterSaved ==
  Returned => metrics.water_saved = Max0(WaterDrop(data, selected_hotel))

\* C3 witness: 1000 units for 100 guests against 1200 for 100 the year
\* before gives 2.
C3_Witness ==
  /\ Returned
  /\ UsageOf(data.water, selected_hotel, LatestIn(data)) = Rat(1000, 1)
  /\ GuestsOf(data, selected_hotel, LatestIn(data)) = Rat(100, 1)
  /\ UsageOf(data.water, selected_hotel, YearBefore(LatestIn(data))) = Rat(1200, 1)
  /\ GuestsOf(data, selected_hotel, YearBefore(LatestIn(data))) = Rat(100, 1)
  /\ metrics.water_saved = Rat(2, 1)

\* C4: co2_saved = max(0, prevYearEnergyPerGuest - currentEnergyPerGuest)
\* * 0.233, the difference clamped before the multiplication, with the
\* Sleepers denominators and the twelve-month offset of the water metric.
C4_CO2Saved ==
  Returned => metrics.co2_saved = Mul(Max0(EnergyDrop(data, selected_hotel)), Rat(233, 1000))

\* C4 witness: a drop of 10 units per guest gives 2.33.
C4_Witness ==
  /\ Returned
  /\ EnergyDrop(data, selected_hotel) = Rat(10, 1)
  /\ metrics.co2_saved = Rat(233, 100)

\* C5: recycling_rate is the arithmetic mean of the Recycling Rates of the
\* waste rows of the selected hotel in the latest month of the whole waste
\* dataset, unclamped (NaN, as pandas has it, when there is no such row).
C5_RecyclingRate ==
  Returned => metrics.recycling_rate = RecyclingOf(data, selected_hotel, LatestIn(data))

\* C5 witness: a mean of two rows that lies above the 0.50 target, with rows
\* of another month in the dataset.
C5_Witness ==
  /\ Returned
  /\ Cardinality(WasteIdx(data, selected_hotel, LatestIn(data))) = 2
  /\ \E i \in DOMAIN data.waste : data.waste[i].Month # LatestIn(data)
  /\ Gt(metrics.recycling_rate, recycling_target)

\* C9: food_saved = max(0, mean Food Waste of the month before the latest
\* month - mean Food Waste of the latest month) (0 when a mean is
\* undefined), while water and CO2 compare with twelve months before.
C9_FoodSaved ==
  Returned =>
    /\ metrics.food_saved =
         Max0(Sub(FoodOf(data, selected_hotel, MonthBefore(LatestIn(data))),
                  FoodOf(data, selected_hotel, LatestIn(data))))
    /\ metrics.water_saved = Max0(WaterDrop(data, selected_hotel))
    /\ metrics.co2_saved = Mul(Max0(EnergyDrop(data, selected_hotel)), CO2Factor)

\* C9 witness: food waste fell from the month before.
C9_Witness ==
  /\ Returned
  /\ WasteIdx(data, selected_hotel, MonthBefore(LatestIn(data))) # {}
  /\ Gt(metrics.food_saved, Zero)

\* a Month cell in day/month/year form: "dd/mm/yyyy" naming a calendar date
WellFormedMonth(cell) ==
  /\ cell.sep = "/"
  /\ Len(cell.f) = 3
  /\ cell.f[3] >= 1000 /\ cell.f[3] <= 9999
  /\ cell.f[2] \in 1..12
  /\ cell.f[1] >= 1 /\ cell.f[1] <= DaysInMonth(cell.f[3], cell.f[2])

\* a file is missing, a Month cell is not in day/month/year form, or an
\* occupancy percentage is text that is no number
Unloadable(fs) ==
  \/ \E f \in FileNames : ~fs[f].exists
  \/ \E f \in FileNames : \E i \in DOMAIN fs[f].rows : ~WellFormedMonth(fs[f].rows[i].Month)
  \/ \E i \in DOMAIN fs.occupancy.rows :
       fs.occupancy.rows[i].Rate # EmptyText /\ fs.occupancy.rows[i].Rate.body # "num"

\* C6: load_data is all-or-nothing: with a file missing, a Month cell not in
\* day/month/year form or an unconvertible occupancy percentage it reports
\* an error and returns no data.
C6_LoadAllOrNothing ==
  (pc # "load" /\ Unloadable(files)) =>
    ~data.some /\ errors = <<"Error loading data">>

Called(step) == \E i \in DOMAIN log : log[i] = step

NoLatest(d) == \A i \in DOMAIN d.waste : d.waste[i].Month = NaT

\* a lookup of calculate_guest_impact finds nothing: no column for the hotel,
\* or no row for the hotel in a period the metrics read
LookupMissing(d, h) ==
  \/ h \notin d.water.cols
  \/ h \notin d.electricity.cols
  \/ NoLatest(d)
  \/ LET l == LatestIn(d)
     IN  \/ MeterIdx(d.water, l) = {} \/ MeterIdx(d.water, YearBefore(l)) = {}
         \/ MeterIdx(d.electricity, l) = {} \/ MeterIdx(d.electricity, YearBefore(l)) = {}
         \/ OccIdx(d, h, l) = {} \/ OccIdx(d, h, YearBefore(l)) = {}
         \/ WasteIdx(d, h, l) = {} \/ WasteIdx(d, h, MonthBefore(l)) = {}

\* C7: calculate_guest_impact reports an error and returns no result
\* whenever a lookup yields missing data (no hotel column, no row for the
\* hotel in the latest month, twelve months earlier or the previous month).
C7_MissingDataFails ==
  (Called("calculate_guest_impact") /\ LookupMissing(data, selected_hotel)) =>
    ~metrics.some /\ errors = <<"Error calculating metrics">>

RunOrder ==
  <<"load_data", "selectbox", "calculate_guest_impact", "header", "metric_cards",
    "energy_progress", "recycling_progress", "champion">>

Widgets == {"header", "metric_cards", "energy_progress", "recycling_progress", "champion"}

IsPrefix(s, t) == Len(s) <= Len(t) /\ \A i \in DOMAIN s : s[i] = t[i]

\* C8: the steps of a run occur in the order load, hotel selection,
\* calculation, widgets, each at most once; a failed load is followed by
\* neither selection nor calculation; a failed load or calculation leaves
\* exactly one error message and no widget; widgets are rendered only when
\* both steps returned a result.
C8_RunOrder ==
  /\ IsPrefix(log, RunOrder)
  /\ (Called("load_data") /\ ~data.some) =>
       log = <<"load_data">> /\ errors = <<"Error loading data">> /\ pc = "done"
  /\ (Called("calculate_guest_impact") /\ ~metrics.some) =>
       /\ log = <<"load_data", "selectbox", "calculate_guest_impact">>
       /\ errors = <<"Error calculating metrics">>
       /\ pc = "done"
  /\ (\E w \in Widgets : Called(w)) => data.some /\ metrics.some /\ errors = <<>>

\* C8 witness: a run ended by a failed calculation.
C8_Witness ==
  /\ pc = "done"
  /\ data.some
  /\ Called("calculate_guest_impact")
  /\ ~metrics.some
  /\ Len(errors) = 1

\* C10: in a run that reaches the recycling progress card the value passed
\* to the progress widget is a number in [0, 1], also for a hotel without a
\* waste row in the latest month, and the run ends without an uncaught error.
C10_ProgressDefined ==
  /\ pc = "recycling" =>
       LET v == RecyclingProgress(metrics)
       IN  v.k = "num" /\ v.n >= 0 /\ v.n <= v.d
  /\ pc # "crashed"
====
